---- MODULE Spec2Model ----
(***************************************************************************)
(* Model of src/services/apiClient.ts: getTokens and                        *)
(* fetchWithTokenRotation, the credential-rotation-and-retry protocol.      *)
(*                                                                          *)
(* One call of fetchWithTokenRotation is an async task.  It runs without    *)
(* interruption between its awaits (getVeoAuthTokens(), fetch(),            *)
(* response.json()), so the model has one action per resumption of a call:  *)
(* Start, RefreshReturn, FetchReturn, JsonReturn.  The session cache        *)
(* (sessionStorage key 'veoAuthTokens') is shared by all calls.             *)
(***************************************************************************)
EXTENDS Integers, Sequences, FiniteSets, TLC

VARIABLES
    cache,   \* sessionStorage.getItem('veoAuthTokens')
    call     \* call[c]: the local state of call c of fetchWithTokenRotation

vars == <<cache, call>>

----------------------------------------------------------------------------
(* Bounds and data                                                          *)

\* Longest credential list the cache or the refresh may hold.
MaxTok == 3

\* Tokens are strings: sequences of characters.
TokA == <<"a", "1", "z">>
TokB == <<"b", "2", "3", "4", "5", "6">>
TokC == <<"c", "x", "3", "4", "5", "6", "7", "8">>
TokD == <<"d", "2", "3", "4", "5", "6", "7">>
Tokens == {TokA, TokB, TokC, TokD}

\* An optional value: <<>> is undefined / absent, <<v>> is v.
None == <<>>
Some(v) == <<v>>

Cred(t, at) == [token |-> t, createdAt |-> at]

RECURSIVE SeqsUpTo(_, _)
SeqsUpTo(S, n) ==
    IF n = 0 THEN {<<>>}
    ELSE LET shorter == SeqsUpTo(S, n - 1)
         IN  shorter \cup {Append(s, x) : s \in {q \in shorter : Len(q) = n - 1}, x \in S}

Injective(s) == \A a, b \in 1..Len(s) : a # b => s[a] # s[b]

\* The credential lists of the backing store: distinct tokens, any order.
CredLists ==
    {[k \in 1..Len(s) |-> Cred(s[k], "2024-01-01")] :
        s \in {q \in SeqsUpTo(Tokens, MaxTok) : Injective(q)}}
NonEmptyCredLists == {l \in CredLists : Len(l) > 0}

----------------------------------------------------------------------------
(* JSON text, as far as the code looks into it                              *)

\* A JSON value: an array (of credentials), null, or a non-array object.
JArr(items) == [t |-> "arr", items |-> items]
JNull == [t |-> "null", items |-> <<>>]
JObject == [t |-> "obj", items |-> <<>>]

\* The value of the storage slot: null when the key is missing, else a string,
\* which is empty, or not JSON, or the text of a JSON value.
StoreMissing == [kind |-> "missing", json |-> JNull]
StoreEmptyString == [kind |-> "empty", json |-> JNull]
StoreMalformed == [kind |-> "malformed", json |-> JNull]
StoreText(j) == [kind |-> "text", json |-> j]

\* JSON.stringify(newTokens)
JSONstringify(list) == StoreText(JArr(list))

\* JSON.parse(tokensJSON): <<v>> when the text parses to v, <<>> when it throws.
JSONparse(s) == IF s.kind = "text" THEN Some(s.json) ELSE None

\* if (tokensJSON): null and "" are falsy.
Truthy(s) == s.kind \notin {"missing", "empty"}

\* getTokens()
getTokens(store) ==
    IF Truthy(store)
    THEN LET parsed == JSONparse(store)
         IN  IF parsed # None /\ parsed[1].t = "arr" /\ Len(parsed[1].items) > 0
             THEN parsed[1].items
             ELSE <<>>
    ELSE <<>>

----------------------------------------------------------------------------
(* Messages, thrown values, HTTP responses, audit entries                   *)

\* A message string: a fixed text with the values interpolated into it.
Msg(text, ctx, code) == [text |-> text, ctx |-> ctx, code |-> code]
NoMsg == Msg("", "", 0)

\* A thrown value.  src and origin tell the throw sites apart (origin is the
\* attempt number i + 1 of an error raised inside the loop, 0 elsewhere), so
\* that two errors with equal messages are still two values.
Thrown(isError, src, origin, message) ==
    [isError |-> isError, src |-> src, origin |-> origin, message |-> message]

\* throw new Error(`Auth Token is required for ${logContext}. ...`)
NoTokensError(logContext) ==
    Thrown(TRUE, "noTokens", 0, Msg("Auth Token is required for", logContext, 0))

\* fetch() rejecting: a network-level failure.
NetworkError(n) == Thrown(TRUE, "fetch", n, Msg("Failed to fetch", "", 0))
\* JSON.stringify(requestBody) throwing at line 122: no request is made.
StringifyError(n) ==
    Thrown(TRUE, "stringify", n, Msg("Converting circular structure to JSON", "", 0))
\* response.json() rejecting: the body is not JSON.
SyntaxError(n) == Thrown(TRUE, "json", n, Msg("Unexpected token", "", 0))
\* data.error on a null body.
NullBodyError(n) == Thrown(TRUE, "type", n, Msg("Cannot read properties of null", "", 0))
\* lastError.message on a null lastError.
NullLastError == Thrown(TRUE, "type", 0, Msg("Cannot read properties of null", "", 0))
\* addLogEntry throwing.
SinkError == Thrown(TRUE, "sink", 0, Msg("log store unavailable", "", 0))

\* A response body: not JSON, JSON null, or a JSON object with an optional
\* error.message and an optional message.
Body(t, e, m) == [t |-> t, error |-> e, message |-> m]
BodyBad == Body("bad", None, None)
BodyNull == Body("null", None, None)
BodyObj(e, m) == Body("obj", e, m)

\* response.ok
Ok(status) == status >= 200 /\ status <= 299

\* Variant: the top-level message takes precedence over the nested one.
ErrorMessageOf_TopFirst(status, data) ==
    IF data.message # None /\ data.message[1] # ""
    THEN Msg(data.message[1], "", 0)
    ELSE IF data.error # None /\ data.error[1] # ""
         THEN Msg(data.error[1], "", 0)
         ELSE Msg("API call failed", "", status)

\* data.error?.message || data.message || `API call failed (${response.status})`
ErrorMessageOf(status, data) ==
    IF data.error # None /\ data.error[1] # ""
    THEN Msg(data.error[1], "", 0)
    ELSE IF data.message # None /\ data.message[1] # ""
         THEN Msg(data.message[1], "", 0)
         ELSE Msg("API call failed", "", status)

\* error instanceof Error ? error.message : String(error)
MessageOf(error) ==
    IF error.isError THEN error.message ELSE Msg("String(error)", "", 0)

\* e instanceof Error ? e.message : 'Unknown error'
RefreshMessageOf(e) ==
    IF e.isError THEN e.message ELSE Msg("Unknown error", "", 0)

\* The number of trailing characters of the token written to the audit log.
TailLen == 6

Max(a, b) == IF a > b THEN a ELSE b

\* str.slice(-n): the last n characters, the whole string when it is shorter.
SliceLast(str, n) == SubSeq(str, Max(Len(str) - n, 0) + 1, Len(str))

\* The argument of addLogEntry.  prompt and output name the template; num, tail
\* and msg are the values interpolated into them.
Entry(model, prompt, output, num, tail, msg, status, error) ==
    [model |-> model, prompt |-> prompt, output |-> output, num |-> num,
     tail |-> tail, msg |-> msg, tokenCount |-> 0, status |-> status,
     error |-> error]

----------------------------------------------------------------------------
(* The local state of one call                                              *)

Calls == {1, 2}

\* How addLogEntry behaves for a call: it works, or at one of its call sites
\* it fails, either by throwing or by returning a promise that rejects.
SinkSites ==
    {"refreshStart", "refreshOk", "refreshFail", "attempt", "fail", "retry",
     "exhaust"}
SinkWorks == [mode |-> "ok", site |-> "none"]
SinkFailures == [mode : {"throw", "reject"}, site : SinkSites]

\* What settles the promise the call returned.
Returned(data, token) ==
    [kind |-> "return", data |-> data, successfulToken |-> token, error |-> None]
Raised(error) ==
    [kind |-> "throw", data |-> BodyBad, successfulToken |-> <<>>,
     error |-> Some(error)]

\* pc: "idle" before the call, "refresh" / "fetch" / "json" while it is suspended
\* on getVeoAuthTokens() / fetch() / response.json(), "done" once settled.
\* specificToken, logContext, tokens, i, lastError are the code's variables and
\* status is response.status.  exc is the exception in flight inside a step.
\* The rest is history: audit (the entries the sink accepted), reqs (the
\* requests issued), resps (how each request ended), errs (the error caught for
\* each attempt), settled (the outcomes), and counts of the accesses to the
\* session cache and to the refresh collaborator, with what the cache read
\* returned (read) and what the refresh settled with (refreshed).
\* The requestBody argument (typed any), as far as line 122 looks into it:
\* JSON.stringify returns its text, or throws (a circular object, a BigInt).
PayloadJson == [stringify |-> "ok"]
PayloadCircular == [stringify |-> "throws"]
CanStringify(requestBody) == requestBody.stringify = "ok"

IdleCall(sink) ==
    [pc |-> "idle", specificToken |-> None, logContext |-> "", sink |-> sink,
     tokens |-> <<>>, i |-> 0, lastError |-> None, status |-> 0, exc |-> None,
     audit |-> <<>>, reqs |-> <<>>, resps |-> <<>>, errs |-> <<>>,
     settled |-> <<>>, cacheReads |-> 0, cacheWrites |-> 0, refreshCalls |-> 0,
     read |-> None, refreshed |-> None, reqAt |-> <<>>,
     exhausted |-> FALSE, lastErrorRead |-> None, requestBody |-> PayloadJson]

\* addLogEntry(entry) at a call site.  The call is not awaited and not guarded:
\* a rejected promise is dropped, an exception propagates.
Log(s, site, entry) ==
    IF s.exc # None THEN s
    ELSE IF s.sink.site # site \/ s.sink.mode = "ok"
         THEN [s EXCEPT !.audit = Append(@, entry)]
         ELSE IF s.sink.mode = "reject" THEN s
              ELSE [s EXCEPT !.exc = Some(SinkError)]

\* throw error
Throw(s, error) == IF s.exc # None THEN s ELSE [s EXCEPT !.exc = Some(error)]

\* The end of a step: an exception nothing caught rejects the call's promise.
Settle(s) ==
    IF s.exc = None THEN s
    ELSE [s EXCEPT !.pc = "done", !.settled = Append(@, Raised(s.exc[1])),
                   !.exc = None]

\* specificToken ? ... : ...   (undefined and "" are falsy)
Pinned(s) == s.specificToken # None /\ Len(s.specificToken[1]) > 0

\* Variant: the candidate is looked up in the session cache at each attempt.
CurrentAuthToken_Shared(s) ==
    LET shared == getTokens(cache)
    IN  IF s.i < Len(shared) THEN shared[s.i + 1].token ELSE s.tokens[s.i + 1].token

\* const currentAuthToken = tokens[i].token
CurrentAuthToken(s) == s.tokens[s.i + 1].token

\* i < tokens.length
InRange(s) == s.i < Len(s.tokens)

\* i < tokens.length - 1
HasNext(s) == s.i < Len(s.tokens) - 1

AttemptEntry(s) ==
    Entry(s.logContext, "Attempting ${logContext} with token #${i + 1}",
          "Using token ending in ...${currentAuthToken.slice(-6)}",
          s.i + 1, SliceLast(CurrentAuthToken(s), TailLen), NoMsg, "Success", None)

FailEntry(s, errorMessage) ==
    Entry(s.logContext, "Token #${i + 1} failed", "${errorMessage}",
          s.i + 1, <<>>, errorMessage, "Error", Some(errorMessage))

RetryEntry(s) ==
    Entry(s.logContext, "Retrying with next token...",
          "Fallback mechanism initiated.", 0, <<>>, NoMsg, "Success", None)

\* Variant: the summary entry does not carry the last failure's message.
ExhaustEntry_Generic(s) ==
    Entry(s.logContext, "All available auth tokens failed.",
          "Final error: ${lastError.message}", 0, <<>>, NoMsg, "Error", Some(NoMsg))

ExhaustEntry(s) ==
    Entry(s.logContext, "All available auth tokens failed.",
          "Final error: ${lastError.message}", 0, <<>>, s.lastError[1].message,
          "Error", Some(s.lastError[1].message))

RefreshStartEntry(s) ==
    Entry(s.logContext, "Auth Token Refresh",
          "No tokens found in session. Attempting to re-fetch from database.",
          0, <<>>, NoMsg, "Success", None)

RefreshOkEntry(s, newTokens) ==
    Entry(s.logContext, "Auth Token Refresh",
          "Successfully re-fetched ${newTokens.length} tokens.",
          Len(newTokens), <<>>, NoMsg, "Success", None)

RefreshFailEntry(s, e) ==
    Entry(s.logContext, "Auth Token Refresh", "Failed to re-fetch tokens: ${e.message}",
          0, <<>>, RefreshMessageOf(e), "Error", Some(RefreshMessageOf(e)))

RECURSIVE LoopFrom(_)

\* Variant: exhaustion raises without its summary entry.
Exhausted_Silent(s) == Throw(s, s.lastError[1])

\* Lines 162-171: every token failed.
Exhausted(s) ==
    LET s0 == [s EXCEPT !.exhausted = TRUE, !.lastErrorRead = s.lastError]
    IN  IF s.lastError = None
        THEN Throw(s0, NullLastError)
        ELSE Throw(Log(s0, "exhaust", ExhaustEntry(s0)), s.lastError[1])

\* Variant: lastError keeps the first failure.
RecordError_KeepFirst(s, error) ==
    [s EXCEPT !.lastError = IF @ = None THEN Some(error) ELSE @,
              !.errs = Append(@, error)]

\* lastError = error
RecordError(s, error) ==
    [s EXCEPT !.lastError = Some(error), !.errs = Append(@, error)]

\* Variant: after a rejected fetch the catch block does not advance: the same
\* candidate is tried again.
CatchAttempt_NoAdvance(s, error) ==
    LET s1 == RecordError(s, error)
        s2 == Log(s1, "fail", FailEntry(s1, MessageOf(error)))
        s3 == IF HasNext(s2) THEN Log(s2, "retry", RetryEntry(s2)) ELSE s2
        s4 == IF s3.exc # None \/ error.src = "fetch" THEN s3
              ELSE [s3 EXCEPT !.i = @ + 1]
    IN  LoopFrom(s4)

\* Variant: the catch block rethrows instead of moving on.
CatchAttempt_Rethrow(s, error) ==
    LET s1 == RecordError(s, error)
    IN  Throw(Log(s1, "fail", FailEntry(s1, MessageOf(error))), error)

\* Lines 136-160: the catch block of attempt i, then i++ and the loop again.
CatchAttempt(s, error) ==
    LET s1 == RecordError(s, error)
        s2 == Log(s1, "fail", FailEntry(s1, MessageOf(error)))
        s3 == IF HasNext(s2) THEN Log(s2, "retry", RetryEntry(s2)) ELSE s2
        s4 == IF s3.exc # None THEN s3 ELSE [s3 EXCEPT !.i = @ + 1]
    IN  LoopFrom(s4)

\* Lines 114-123, the try up to the await: JSON.stringify(requestBody) is
\* evaluated first and its exception goes to the catch block with no request
\* made; else fetch(endpoint, {... Authorization: `Bearer ${currentAuthToken}`}).
IssueFetch(s) ==
    IF s.exc # None THEN s
    ELSE IF ~CanStringify(s.requestBody)
         THEN CatchAttempt(s, StringifyError(s.i + 1))
         ELSE [s EXCEPT !.pc = "fetch",
                        !.reqs = Append(@, [authorization |-> CurrentAuthToken(s)]),
                        !.reqAt = Append(@, Len(s.audit))]

\* Variant: the attempt is logged after its request has been issued.
LoopFrom_LogAfter(s) ==
    IF s.exc # None THEN s
    ELSE IF InRange(s)
         THEN Log(IssueFetch(s), "attempt", AttemptEntry(s))
         ELSE Exhausted(s)

\* Lines 102-123: the head of the loop at index i, up to the await of fetch().
LoopFrom(s) ==
    IF s.exc # None THEN s
    ELSE IF InRange(s)
         THEN IssueFetch(Log(s, "attempt", AttemptEntry(s)))
         ELSE Exhausted(s)

\* Variant: the loop is entered without the test for an empty list.
AfterResolve_NoCheck(s) ==
    IF s.exc # None THEN s
    ELSE LoopFrom([s EXCEPT !.lastError = None, !.i = 0])

\* Lines 95-100: no tokens after the check, else the loop from i = 0.
AfterResolve(s) ==
    IF s.exc # None THEN s
    ELSE IF Len(s.tokens) = 0
         THEN Throw(s, NoTokensError(s.logContext))
         ELSE LoopFrom([s EXCEPT !.lastError = None, !.i = 0])

----------------------------------------------------------------------------
(* The steps of a call, as functions of its local state                     *)

\* What getVeoAuthTokens() settles with: a list, null, or a thrown value.
RefreshList(l) == [kind |-> "list", list |-> l, error |-> None]
RefreshNull == [kind |-> "null", list |-> <<>>, error |-> None]
RefreshThrow(e) == [kind |-> "throw", list |-> <<>>, error |-> Some(e)]
RefreshError == Thrown(TRUE, "refresh", 0, Msg("database unreachable", "", 0))
RefreshNonError == Thrown(FALSE, "refresh", 0, Msg("offline", "", 0))

\* newTokens && newTokens.length > 0
GotTokens(r) == r.kind = "list" /\ Len(r.list) > 0

\* How an attempt ended: fetch() rejected, or a response with a status and a body.
AttemptNetwork == [kind |-> "network", status |-> 0, body |-> BodyBad]
AttemptResponse(status, body) == [kind |-> "response", status |-> status, body |-> body]

\* Variant: the pinned token is put in front of the cached list.
StartStep_PinThenCache(s0, pin, ctx, store) ==
    LET s == [s0 EXCEPT !.specificToken = pin, !.logContext = ctx]
        s1 == [s EXCEPT !.tokens = getTokens(store), !.cacheReads = @ + 1,
                        !.read = Some(store)]
    IN  IF Pinned(s)
        THEN AfterResolve([s1 EXCEPT !.tokens = <<Cred(pin[1], "N/A")>> \o @])
        ELSE IF Len(s1.tokens) = 0
             THEN LET s2 == Log(s1, "refreshStart", RefreshStartEntry(s1))
                  IN  IF s2.exc # None THEN s2
                      ELSE [s2 EXCEPT !.pc = "refresh", !.refreshCalls = @ + 1]
             ELSE AfterResolve(s1)

\* Lines 54-69: from the call to the first await.
StartStep(s0, pin, ctx, store) ==
    LET s == [s0 EXCEPT !.specificToken = pin, !.logContext = ctx]
    IN  IF Pinned(s)
        THEN AfterResolve([s EXCEPT !.tokens = <<Cred(pin[1], "N/A")>>])
        ELSE LET s1 == [s EXCEPT !.tokens = getTokens(store), !.cacheReads = @ + 1,
                                   !.read = Some(store)]
             IN  IF Len(s1.tokens) = 0
                 THEN LET s2 == Log(s1, "refreshStart", RefreshStartEntry(s1))
                      IN  IF s2.exc # None THEN s2
                          ELSE [s2 EXCEPT !.pc = "refresh", !.refreshCalls = @ + 1]
                 ELSE AfterResolve(s1)

\* Variant: the refreshed list is not written to the session cache.
StoreAfterRefresh_NotPersisted(store, r) == store

\* Variant: whatever list the refresh returned is written to the session cache.
StoreAfterRefresh_Always(store, r) ==
    IF r.kind = "list" THEN JSONstringify(r.list) ELSE store

\* Line 71: sessionStorage.setItem('veoAuthTokens', JSON.stringify(newTokens))
StoreAfterRefresh(store, r) ==
    IF GotTokens(r) THEN JSONstringify(r.list) ELSE store

\* Line 72: tokens = newTokens
AdoptTokens(s, r) == [s EXCEPT !.tokens = r.list, !.cacheWrites = @ + 1]

\* Variant: no catch around the refresh: its error propagates.
RefreshStep_NoCatch(s0, r) ==
    LET s == [s0 EXCEPT !.refreshed = Some(r)]
    IN  IF r.kind = "throw" THEN Throw(s, r.error[1])
        ELSE IF GotTokens(r)
             THEN AfterResolve(Log(AdoptTokens(s, r), "refreshOk",
                                   RefreshOkEntry(s, r.list)))
             ELSE AfterResolve(s)

\* Variant: a refresh that brought nothing falls back to reading the session
\* cache again.
RefreshStep_Reread(s0, r) ==
    LET s == [s0 EXCEPT !.refreshed = Some(r)]
    IN  IF r.kind = "throw"
        THEN AfterResolve(Log([s EXCEPT !.tokens = getTokens(cache)], "refreshFail",
                              RefreshFailEntry(s, r.error[1])))
        ELSE IF GotTokens(r)
             THEN LET s1 == AdoptTokens(s, r)
                  IN  AfterResolve(Log(s1, "refreshOk", RefreshOkEntry(s1, r.list)))
             ELSE AfterResolve([s EXCEPT !.tokens = getTokens(cache)])

\* Lines 69-93: getVeoAuthTokens() settled with r; the try and its catch.
RefreshStep(s0, r) ==
    LET s == [s0 EXCEPT !.refreshed = Some(r)]
    IN  IF r.kind = "throw"
        THEN AfterResolve(Log(s, "refreshFail", RefreshFailEntry(s, r.error[1])))
        ELSE IF GotTokens(r)
             THEN LET s1 == AdoptTokens(s, r)
                      s2 == Log(s1, "refreshOk", RefreshOkEntry(s1, r.list))
                  IN  IF s2.exc # None
                      THEN AfterResolve(Log([s2 EXCEPT !.exc = None], "refreshFail",
                                            RefreshFailEntry(s2, s2.exc[1])))
                      ELSE AfterResolve(s2)
             ELSE AfterResolve(s)

\* Line 116 settled by rejecting: the catch block.
FetchRejectStep(s) ==
    CatchAttempt([s EXCEPT !.resps = Append(@, AttemptNetwork)], NetworkError(s.i + 1))

\* Line 116 settled with a response: on to the await of response.json().
FetchResponseStep(s, status) == [s EXCEPT !.pc = "json", !.status = status]

\* Variant: the first token of the list is reported as the successful one.
Return_FirstToken(s, data) ==
    [s EXCEPT !.pc = "done",
              !.settled = Append(@, Returned(data, s.tokens[1].token))]

\* return { data, successfulToken: currentAuthToken }
Return(s, data) ==
    [s EXCEPT !.pc = "done",
              !.settled = Append(@, Returned(data, CurrentAuthToken(s)))]

\* Variant: a success status returns whatever the body is.
JsonStep_IgnoreParse(s0, body) ==
    LET s == [s0 EXCEPT !.resps = Append(@, AttemptResponse(s0.status, body))]
        n == s.i + 1
    IN  IF Ok(s.status) THEN Return(s, body)
        ELSE IF body.t = "bad" THEN CatchAttempt(s, SyntaxError(n))
             ELSE IF body.t = "null" THEN CatchAttempt(s, NullBodyError(n))
                  ELSE CatchAttempt(s, Thrown(TRUE, "http", n,
                                              ErrorMessageOf(s.status, body)))

\* Lines 126-134: response.json() settled with body (BodyBad: it rejected).
JsonStep(s0, body) ==
    LET s == [s0 EXCEPT !.resps = Append(@, AttemptResponse(s0.status, body))]
        n == s.i + 1
    IN  IF body.t = "bad" THEN CatchAttempt(s, SyntaxError(n))
        ELSE IF ~Ok(s.status)
             THEN IF body.t = "null" THEN CatchAttempt(s, NullBodyError(n))
                  ELSE CatchAttempt(s, Thrown(TRUE, "http", n,
                                              ErrorMessageOf(s.status, body)))
             ELSE Return(s, body)

----------------------------------------------------------------------------
(* Actions                                                                  *)

Start(c, pin, ctx, requestBody) ==
    /\ call[c].pc = "idle"
    /\ call' = [call EXCEPT ![c] =
                   Settle(StartStep([call[c] EXCEPT !.requestBody = requestBody],
                                    pin, ctx, cache))]
    /\ UNCHANGED cache

RefreshReturn(c, r) ==
    /\ call[c].pc = "refresh"
    /\ cache' = StoreAfterRefresh(cache, r)
    /\ call' = [call EXCEPT ![c] = Settle(RefreshStep(call[c], r))]

FetchReject(c) ==
    /\ call[c].pc = "fetch"
    /\ call' = [call EXCEPT ![c] = Settle(FetchRejectStep(call[c]))]
    /\ UNCHANGED cache

FetchResponse(c, status) ==
    /\ call[c].pc = "fetch"
    /\ call' = [call EXCEPT ![c] = FetchResponseStep(call[c], status)]
    /\ UNCHANGED cache

JsonReturn(c, body) ==
    /\ call[c].pc = "json"
    /\ call' = [call EXCEPT ![c] = Settle(JsonStep(call[c], body))]
    /\ UNCHANGED cache

----------------------------------------------------------------------------
(* The environment                                                          *)

\* What the session cache may hold when a call starts.
Stores ==
    {StoreMissing, StoreEmptyString, StoreMalformed, StoreText(JNull),
     StoreText(JObject), StoreText(JArr(<<>>))}
        \cup {JSONstringify(l) : l \in NonEmptyCredLists}
EmptyStores == {st \in Stores : getTokens(st) = <<>>}

\* The specificToken argument: omitted, "", or a token.
Pins == {None, Some(<<>>), Some(TokA), Some(TokC)}
NoPins == {pin \in Pins : pin = None \/ pin[1] = <<>>}
Contexts == {"VEO T2V", "IMAGEN"}
\* The requestBody argument: a value JSON.stringify accepts, or one it rejects.
RequestBodies == {PayloadJson, PayloadCircular}

\* What getVeoAuthTokens() may settle with: lists over two of the tokens (the
\* empty list among them), null, or a thrown value.
RefreshTokens == {TokB, TokC}
RefreshLists ==
    {l \in CredLists : \A k \in 1..Len(l) : l[k].token \in RefreshTokens}
RefreshOutcomes ==
    {RefreshList(l) : l \in RefreshLists}
        \cup {RefreshNull, RefreshThrow(RefreshError), RefreshThrow(RefreshNonError)}

Statuses == {200, 500}
Bodies ==
    {BodyBad, BodyNull, BodyObj(None, None), BodyObj(Some("quota"), Some("denied"))}

Init ==
    /\ cache \in Stores
    /\ call = [c \in Calls |-> IdleCall(SinkWorks)]

\* One call, every outcome of every await.
Next ==
    \/ \E pin \in Pins, requestBody \in RequestBodies :
           Start(1, pin, "VEO T2V", requestBody)
    \/ \E r \in RefreshOutcomes : RefreshReturn(1, r)
    \/ FetchReject(1)
    \/ \E status \in Statuses : FetchResponse(1, status)
    \/ \E body \in Bodies : JsonReturn(1, body)

Spec == Init /\ [][Next]_vars

----------------------------------------------------------------------------
(* Two calls running interleaved                                            *)

\* A smaller environment for two calls: two lists the backing store may
\* return, a cache that starts without tokens or with the first list, requests
\* that are rejected or answered with a good or a bad body.
ListOne == <<Cred(TokA, "2024-01-01"), Cred(TokC, "2024-01-01")>>
ListTwo == <<Cred(TokD, "2024-02-02")>>
ConcStores == {StoreMissing, StoreMalformed, JSONstringify(ListOne)}
ConcPins == {None, Some(<<>>), Some(TokB)}
ConcRefreshOutcomes ==
    {RefreshList(ListOne), RefreshList(ListTwo), RefreshList(<<>>), RefreshNull,
     RefreshThrow(RefreshError)}
ConcBodies == {BodyBad, BodyObj(None, None)}

InitConc ==
    /\ cache \in ConcStores
    /\ call = [c \in Calls |-> IdleCall(SinkWorks)]

NextConc ==
    \E c \in Calls :
        \/ \E pin \in ConcPins, ctx \in Contexts, requestBody \in RequestBodies :
               Start(c, pin, ctx, requestBody)
        \/ \E r \in ConcRefreshOutcomes : RefreshReturn(c, r)
        \/ FetchReject(c)
        \/ \E status \in Statuses : FetchResponse(c, status)
        \/ \E body \in ConcBodies : JsonReturn(c, body)

SpecConc == InitConc /\ [][NextConc]_vars

\* The environment of the two calls whose awaits always settle: a cache that
\* is empty or holds two credentials, a refresh that returns one credential
\* or throws, a request body that can be serialised, a response that succeeds
\* or carries a failure status.
LiveStores == {StoreMissing, JSONstringify(ListOne)}
LiveRefreshOutcomes == {RefreshList(ListTwo), RefreshThrow(RefreshError)}
LiveStatuses == {200, 500}
LiveBodies == {BodyObj(None, None)}

InitLive ==
    /\ cache \in LiveStores
    /\ call = [c \in Calls |-> IdleCall(SinkWorks)]

\* An await of call c settles: the refresh, the request or the body read
\* completes or fails.
Complete(c) ==
    \/ \E r \in LiveRefreshOutcomes : RefreshReturn(c, r)
    \/ FetchReject(c)
    \/ \E status \in LiveStatuses : FetchResponse(c, status)
    \/ \E body \in LiveBodies : JsonReturn(c, body)

NextLive ==
    \E c \in Calls :
        \/ Start(c, None, "VEO T2V", PayloadJson)
        \/ Complete(c)

\* Two calls, under the assumption that every request and every refresh
\* eventually completes or fails: the pending await of a call is eventually
\* settled and the event loop then resumes the call.
SpecLive ==
    InitLive /\ [][NextLive]_vars /\ \A c \in Calls : WF_vars(Complete(c))

\* The same two calls, the audit sink working for call 1 and failing at one of
\* its call sites for call 2.
InitSink ==
    /\ cache \in ConcStores
    /\ \E f \in SinkFailures :
           call = [c \in Calls |-> IF c = 1 THEN IdleCall(SinkWorks) ELSE IdleCall(f)]

NextSink ==
    \E c \in Calls :
        \/ \E pin \in ConcPins : Start(c, pin, "VEO T2V", PayloadJson)
        \/ \E r \in ConcRefreshOutcomes : RefreshReturn(c, r)
        \/ FetchReject(c)
        \/ \E status \in Statuses : FetchResponse(c, status)
        \/ \E body \in ConcBodies : JsonReturn(c, body)

SpecSink == InitSink /\ [][NextSink]_vars

----------------------------------------------------------------------------
(* One call, every shape of response                                        *)

\* Every combination of an absent, empty or non-empty nested error message
\* with an absent, empty or non-empty top-level message, under several
\* statuses; short credential lists.
MsgStatuses == {200, 401, 500, 503}
MsgFields == {None, Some(""), Some("quota"), Some("denied")}
MsgBodies == {BodyBad, BodyNull} \cup {BodyObj(e, m) : e \in MsgFields, m \in MsgFields}
MsgStores == {StoreMissing, JSONstringify(ListOne)}

InitMsg ==
    /\ cache \in MsgStores
    /\ call = [c \in Calls |-> IdleCall(SinkWorks)]

NextMsg ==
    \/ \E pin \in ConcPins : Start(1, pin, "VEO T2V", PayloadJson)
    \/ \E r \in {RefreshList(ListTwo), RefreshNull} : RefreshReturn(1, r)
    \/ FetchReject(1)
    \/ \E status \in MsgStatuses : FetchResponse(1, status)
    \/ \E body \in MsgBodies : JsonReturn(1, body)

SpecMsg == InitMsg /\ [][NextMsg]_vars

----------------------------------------------------------------------------
(* Vocabulary of the properties                                             *)

Done(s) == s.pc = "done"

\* An attempt failed: fetch() rejected, the body did not parse, or the status
\* is a failure status.
AttemptFailed(r) == r.kind = "network" \/ r.body.t = "bad" \/ ~Ok(r.status)
AttemptSucceeded(r) == ~AttemptFailed(r)

AllFailed(s) ==
    /\ Len(s.tokens) > 0
    /\ Len(s.resps) = Len(s.tokens)
    /\ \A k \in 1..Len(s.resps) : AttemptFailed(s.resps[k])

\* The call was given no pinned credential (the argument omitted).
Unpinned(s) == s.pc # "idle" /\ s.specificToken = None

\* The value read from the cache is missing, malformed JSON, or an empty list.
ReadNothing(s) ==
    /\ s.read # None
    /\ \/ s.read[1].kind \in {"missing", "malformed"}
       \/ s.read[1] = StoreText(JArr(<<>>))

\* The requests issued so far went, in list order, to the first tokens of l.
RequestsFollow(s, l) ==
    /\ Len(s.reqs) <= Len(l)
    /\ \A j \in 1..Len(s.reqs) : s.reqs[j].authorization = l[j].token

AttemptEntries(s) ==
    {j \in 1..Len(s.audit) :
        s.audit[j].prompt = "Attempting ${logContext} with token #${i + 1}"}

----------------------------------------------------------------------------
(* Properties                                                               *)

\* C1: when the requests for candidates 0..k-1 fail and the request for
\* candidate k succeeds, the call returns the response data of candidate k's
\* request together with candidate k's token, and has issued requests for
\* candidates 0..k only, one each, in list order.
C1_FirstSuccessReturned ==
    \A c \in Calls :
        LET s == call[c]
        IN  \A k \in 1..Len(s.resps) :
                (/\ AttemptSucceeded(s.resps[k])
                 /\ \A j \in 1..(k - 1) : AttemptFailed(s.resps[j]))
                => /\ s.settled = <<Returned(s.resps[k].body, s.tokens[k].token)>>
                   /\ Done(s)
                   /\ Len(s.reqs) = k
                   /\ RequestsFollow(s, s.tokens)

\* C1 witness: three candidates, the first fails, the second succeeds, the
\* third is never requested.
C1_Witness ==
    LET s == call[1]
    IN  /\ Done(s) /\ Len(s.tokens) = 3 /\ Len(s.resps) = 2
        /\ AttemptFailed(s.resps[1]) /\ AttemptSucceeded(s.resps[2])
        /\ s.settled[1].kind = "return"

\* C2: when every request of a list of length n >= 1 fails, the call raises
\* exactly the error caught for the n-th attempt: that value, raised by
\* attempt n, and nothing else.
C2_LastErrorRaised ==
    \A c \in Calls :
        LET s == call[c]
            n == Len(s.tokens)
        IN  AllFailed(s)
            => /\ Done(s)
               /\ Len(s.errs) = n
               /\ s.errs[n].origin = n
               /\ s.settled = <<Raised(s.errs[n])>>

\* C2 witness: three candidates all failed, in three different ways.
C2_Witness ==
    LET s == call[1]
    IN  /\ AllFailed(s) /\ Len(s.tokens) = 3
        /\ s.resps[1].kind = "network"
        /\ s.resps[2].body.t = "bad"
        /\ s.resps[3].body = BodyObj(Some("quota"), Some("denied"))
        /\ s.settled[1].kind = "throw"

\* C3: with no pinned credential, a cache that is missing, malformed or empty,
\* and a refresh that returns nothing or throws, the call fails with the
\* no-credentials error, whose message carries the context label, without any
\* HTTP request; the refresh's own error is not what is raised.
C3_NoCredentials ==
    \A c \in Calls :
        LET s == call[c]
        IN  (Unpinned(s) /\ ReadNothing(s) /\ s.refreshed # None
                /\ ~GotTokens(s.refreshed[1]))
            => /\ Done(s)
               /\ Len(s.settled) = 1
               /\ s.settled[1].kind = "throw"
               /\ s.settled[1].error[1].src = "noTokens"
               /\ s.settled[1].error[1].message.ctx = s.logContext
               /\ s.settled[1].error # s.refreshed[1].error
               /\ s.reqs = <<>>

\* C3 witness: malformed cache, the refresh throws.
C3_Witness ==
    LET s == call[1]
    IN  /\ Unpinned(s) /\ s.read = Some(StoreMalformed)
        /\ s.refreshed = Some(RefreshThrow(RefreshError))
        /\ Done(s)

\* C4 as stated: for every pinned credential string, whatever the cache holds,
\* the call makes exactly one HTTP attempt, with the pinned token, and neither
\* reads nor writes the session cache nor calls the refresh.
C4_AnyPinOneAttempt ==
    \A c \in Calls :
        LET s == call[c]
        IN  (s.pc # "idle" /\ s.specificToken # None)
            => /\ Len(s.reqs) <= 1
               /\ Done(s) => Len(s.reqs) = 1
               /\ \A j \in 1..Len(s.reqs) : s.reqs[j].authorization = s.specificToken[1]
               /\ s.cacheReads = 0 /\ s.cacheWrites = 0 /\ s.refreshCalls = 0

\* C4 amended: for every non-empty pinned credential string the call makes
\* exactly one attempt, with the pinned token: one HTTP request when the
\* request body can be serialised, none when JSON.stringify throws; and it
\* neither reads nor writes the session cache nor calls the refresh.
C4_PinOneAttempt ==
    \A c \in Calls :
        LET s == call[c]
        IN  (s.pc # "idle" /\ s.specificToken # None /\ s.specificToken[1] # <<>>)
            => /\ s.pc \in {"fetch", "json", "done"}
               /\ s.tokens = <<Cred(s.specificToken[1], "N/A")>>
               /\ Cardinality(AttemptEntries(s)) = 1
               /\ CanStringify(s.requestBody)
                  => /\ s.reqs = <<[authorization |-> s.specificToken[1]]>>
                     /\ Done(s) => Len(s.resps) = 1
               /\ ~CanStringify(s.requestBody)
                  => /\ s.reqs = <<>>
                     /\ s.settled = <<Raised(StringifyError(1))>>
               /\ s.cacheReads = 0 /\ s.cacheWrites = 0 /\ s.refreshCalls = 0
               /\ s.read = None /\ s.refreshed = None

\* C4 witness: a pinned call whose single attempt failed while the cache holds
\* a list of other tokens.
C4_Witness ==
    LET s == call[1]
    IN  /\ Done(s) /\ s.specificToken = Some(TokC)
        /\ Len(getTokens(cache)) = 2 /\ getTokens(cache)[1].token = TokA
        /\ Len(s.resps) = 1 /\ AttemptFailed(s.resps[1])

\* C5: with no pinned credential and a cached value that is missing, malformed
\* or an empty list, the call raises nothing and invokes the refresh; when the
\* refresh returns a non-empty list, that list is what the session cache then
\* holds and what this call rotates over, in the order returned.
C5_RefreshAdopted ==
    \A c \in Calls :
        LET s == call[c]
        IN  (Unpinned(s) /\ ReadNothing(s))
            => /\ s.refreshCalls = 1
               /\ s.refreshed = None => (s.pc = "refresh" /\ s.settled = <<>>)
               /\ (s.refreshed # None /\ GotTokens(s.refreshed[1]))
                  => /\ cache = JSONstringify(s.refreshed[1].list)
                     /\ getTokens(cache) = s.refreshed[1].list
                     /\ s.tokens = s.refreshed[1].list
                     /\ AttemptEntries(s) # {}
                     /\ CanStringify(s.requestBody) => Len(s.reqs) >= 1
                     /\ RequestsFollow(s, s.refreshed[1].list)

\* C5 witness: malformed cache, the refresh returned two credentials and the
\* call has gone through both.
C5_Witness ==
    LET s == call[1]
    IN  /\ Unpinned(s) /\ s.read = Some(StoreMalformed)
        /\ s.refreshed # None /\ GotTokens(s.refreshed[1])
        /\ Len(s.refreshed[1].list) = 2 /\ Len(s.reqs) = 2
        /\ Done(s)

\* C7: the identifier written into an attempt's audit entry is a strict part
\* of the token tried, never the whole token.
C7_TailIsStrictPart ==
    \A c \in Calls :
        LET s == call[c]
        IN  \A j \in AttemptEntries(s) :
                /\ Len(s.audit[j].tail) < Len(s.tokens[s.audit[j].num].token)
                /\ s.audit[j].tail # s.tokens[s.audit[j].num].token

\* C9: a call settles at most once, with a result or with an error; an error
\* is raised only when the resolved list is empty or the last candidate's
\* attempt has failed, never for a failed attempt that has a successor.
C9_OneOutcome ==
    \A c \in Calls :
        LET s == call[c]
            n == Len(s.tokens)
        IN  /\ Len(s.settled) <= 1
            /\ Done(s) <=> Len(s.settled) = 1
            /\ (Done(s) /\ s.settled[1].kind = "return")
               => /\ s.settled[1].error = None
                  /\ AttemptSucceeded(s.resps[Len(s.resps)])
            /\ (Done(s) /\ s.settled[1].kind = "throw")
               => \/ n = 0 /\ s.resps = <<>> /\ s.errs = <<>>
                  \/ /\ n > 0 /\ Len(s.errs) = n
                     /\ s.settled[1].error = Some(s.errs[n])
                     /\ s.settled[1].error[1].origin = n
                     /\ CanStringify(s.requestBody)
                        => Len(s.resps) = n /\ AttemptFailed(s.resps[n])
            /\ \A k \in 1..Len(s.resps) :
                   (AttemptFailed(s.resps[k]) /\ k < n)
                   => (Len(s.resps) = k => ~Done(s))

\* C9 witness: the first of two candidates has failed and the call is at the
\* second, nothing raised.
C9_Witness ==
    LET s == call[1]
    IN  /\ Len(s.tokens) = 2 /\ Len(s.resps) = 1 /\ AttemptFailed(s.resps[1])
        /\ s.pc = "fetch" /\ Len(s.reqs) = 2 /\ s.settled = <<>>

\* The attempts the call has started: each one issued its request, or failed
\* before it when the request body cannot be serialised.
Attempts(s) == IF CanStringify(s.requestBody) THEN Len(s.reqs) ELSE Len(s.errs)

\* 1 when the call ended with every candidate's attempt failed.
Exhaustion(s) ==
    IF Done(s) /\ Len(s.tokens) > 0 /\ Len(s.errs) = Len(s.tokens) THEN 1 ELSE 0

\* C10 as stated: the number of audit entries is the number of attempts, plus
\* one if a refresh was performed, plus one if all candidates were exhausted.
C10_OneEntryEach ==
    \A c \in Calls :
        LET s == call[c]
        IN  Done(s)
            => Len(s.audit) = Attempts(s) + s.refreshCalls + Exhaustion(s)

\* C10 amended: one entry per attempt started, one per failed attempt, one
\* more per failed attempt that has a successor, one when a refresh starts and
\* one more when it returns a non-empty list or throws, one on exhaustion.
C10_EntryCount ==
    \A c \in Calls :
        LET s == call[c]
            retries == Cardinality({k \in 1..Len(s.errs) : k < Len(s.tokens)})
            refreshOutcome ==
                IF s.refreshed # None
                   /\ (s.refreshed[1].kind = "throw" \/ GotTokens(s.refreshed[1]))
                THEN 1 ELSE 0
        IN  Len(s.audit) = Attempts(s) + Len(s.errs) + retries
                           + s.refreshCalls + refreshOutcome + Exhaustion(s)

\* C10 witness: a refresh returned two credentials and both attempts failed:
\* eight entries.
C10_Witness ==
    LET s == call[1]
    IN  /\ Done(s) /\ s.refreshCalls = 1 /\ Len(s.tokens) = 2 /\ AllFailed(s)
        /\ Len(s.audit) = 8

\* Two runs were given the same arguments, read the same cache, got the same
\* answer from the refresh and the same outcome for each request both made.
SameRun(a, b) ==
    /\ a.specificToken = b.specificToken /\ a.logContext = b.logContext
    /\ a.read = b.read
    /\ (a.refreshed # None /\ b.refreshed # None) => a.refreshed = b.refreshed
    /\ \A k \in 1..Len(a.resps) : k <= Len(b.resps) => a.resps[k] = b.resps[k]

\* C6: a failing audit sink changes nothing: a run whose sink fails settles as
\* the run with a working sink does on the same inputs, having issued the same
\* requests.
C6_SinkFailureHarmless ==
    LET a == call[1]
        b == call[2]
    IN  (Done(a) /\ Done(b) /\ b.sink # SinkWorks /\ SameRun(a, b))
        => /\ a.settled = b.settled
           /\ a.reqs = b.reqs

\* C8: the list a call rotates over is fixed once resolved: while the call is
\* suspended on a request (and when it resumes) its list stays what it was,
\* whatever another call writes into the session cache, and its requests go
\* to the tokens of that list, in order, one each; exhaustion comes after as
\* many requests as the list has tokens.
C8_ListFixed ==
    /\ [][\A c \in Calls :
            call[c].pc \in {"fetch", "json"} => call'[c].tokens = call[c].tokens]_vars
    /\ [](\A c \in Calls :
            /\ RequestsFollow(call[c], call[c].tokens)
            /\ AllFailed(call[c]) => Len(call[c].reqs) = Len(call[c].tokens))

\* C8 witness: call 1 refreshed, got two tokens, and is suspended on its second
\* request while the cache holds the other list, written by call 2's refresh.
C8_Witness ==
    /\ call[1].pc = "fetch" /\ call[1].tokens = ListOne /\ Len(call[1].reqs) = 2
    /\ call[1].cacheWrites = 1 /\ call[2].cacheWrites = 1
    /\ cache = JSONstringify(ListTwo)

FailEntries(s) ==
    {j \in 1..Len(s.audit) : s.audit[j].prompt = "Token #${i + 1} failed"}
ExhaustEntries(s) ==
    {j \in 1..Len(s.audit) : s.audit[j].prompt = "All available auth tokens failed."}

\* The first attempt that succeeded, 0 when none has.
FirstSuccess(s) ==
    IF \E k \in 1..Len(s.resps) : AttemptSucceeded(s.resps[k])
    THEN CHOOSE k \in 1..Len(s.resps) :
            /\ AttemptSucceeded(s.resps[k])
            /\ \A j \in 1..(k - 1) : AttemptFailed(s.resps[j])
    ELSE 0

\* C11: an all-failing list of length n leaves exactly n attempt-failure
\* entries, the j-th numbered j and carrying the message of the error caught for
\* candidate j, and exactly one exhaustion summary carrying the last failure's
\* message; a list whose candidate k is the first to succeed leaves exactly k+1
\* attempt-start entries and no entry that belongs to a later candidate: the
\* start entry of candidate k is the last entry of all.
C11_AuditPerOutcome ==
    \A c \in Calls :
        LET s == call[c]
            n == Len(s.tokens)
            k == FirstSuccess(s)
        IN  /\ (Done(s) /\ AllFailed(s))
               => /\ Cardinality(FailEntries(s)) = n
                  /\ \A j \in 1..n :
                        \E e \in FailEntries(s) :
                            /\ s.audit[e].num = j
                            /\ s.audit[e].msg = s.errs[j].message
                            /\ s.audit[e].error = Some(s.errs[j].message)
                            /\ s.errs[j].origin = j
                  /\ Cardinality(ExhaustEntries(s)) = 1
                  /\ \A e \in ExhaustEntries(s) :
                        /\ s.audit[e].msg = s.errs[n].message
                        /\ s.audit[e].error = Some(s.errs[n].message)
            /\ k > 0
               => /\ Cardinality(AttemptEntries(s)) = k
                  /\ \A j \in 1..k : \E e \in AttemptEntries(s) : s.audit[e].num = j
                  /\ \A e \in AttemptEntries(s) \cup FailEntries(s) : s.audit[e].num <= k
                  /\ Cardinality(FailEntries(s)) = k - 1
                  /\ Len(s.audit) \in AttemptEntries(s)
                  /\ s.audit[Len(s.audit)].num = k
                  /\ ExhaustEntries(s) = {}

\* C11 witness: two candidates failed with different messages and the summary
\* was written.
C11_Witness ==
    LET s == call[1]
    IN  /\ Done(s) /\ AllFailed(s) /\ Len(s.tokens) = 2
        /\ s.errs[1].message # s.errs[2].message
        /\ ExhaustEntries(s) # {}

\* The attempts that ended with a failure status and a body that is a JSON
\* object (or, with withNull, JSON null).
StatusFailures(s, withNull) ==
    {k \in 1..Len(s.resps) :
        /\ s.resps[k].kind = "response" /\ ~Ok(s.resps[k].status)
        /\ s.resps[k].body.t \in (IF withNull THEN {"obj", "null"} ELSE {"obj"})}

\* The fields as the claim reads them: present means there.
MessageIfPresent(status, body) ==
    IF body.error # None THEN Msg(body.error[1], "", 0)
    ELSE IF body.message # None THEN Msg(body.message[1], "", 0)
         ELSE Msg("API call failed", "", status)

\* The fields as amended: a field counts when it is present and not empty, and
\* reading the fields of a null body is itself the failure.
MessageIfNonEmpty(status, body) ==
    IF body.t = "null" THEN Msg("Cannot read properties of null", "", 0)
    ELSE IF body.error \notin {None, Some("")} THEN Msg(body.error[1], "", 0)
    ELSE IF body.message \notin {None, Some("")} THEN Msg(body.message[1], "", 0)
         ELSE Msg("API call failed", "", status)

\* C12 as stated: for every response with a failure status, the attempt's
\* error message is the nested error message if present, else the top-level
\* message if present, else the generic message with the status code.
C12_MessageIfPresent ==
    \A c \in Calls :
        LET s == call[c]
        IN  \A k \in StatusFailures(s, TRUE) :
                s.errs[k].message = MessageIfPresent(s.resps[k].status, s.resps[k].body)

\* C12 amended: for every response with a failure status and a body that
\* parses, the attempt's error message (the one caught, logged, and raised if
\* the attempt is the last) is the nested error message if present and not
\* empty, else the top-level message if present and not empty, else the generic
\* message with the status code; for a null body it is the message of the
\* TypeError that reading its fields raises.
C12_MessageIfNonEmpty ==
    \A c \in Calls :
        LET s == call[c]
        IN  \A k \in StatusFailures(s, TRUE) :
                LET m == MessageIfNonEmpty(s.resps[k].status, s.resps[k].body)
                IN  /\ s.errs[k].message = m
                    /\ \E e \in FailEntries(s) :
                          s.audit[e].num = k /\ s.audit[e].msg = m
                    /\ (Done(s) /\ k = Len(s.tokens))
                       => s.settled[1].error[1].message = m

\* C12 witness: status 503, an empty nested message and a top-level message:
\* the attempt's message is the top-level one.
C12_Witness ==
    LET s == call[1]
    IN  /\ Len(s.resps) >= 1
        /\ s.resps[1] = AttemptResponse(503, BodyObj(Some(""), Some("denied")))
        /\ s.errs[1].message = Msg("denied", "", 0)

\* A request of the call is in flight.
InFlight(s) == s.pc \in {"fetch", "json"}

\* C13: the requests of a call are strictly sequential in list order: request
\* j goes to candidate j, a request has been issued for candidate j+1 only if
\* the request for candidate j has completed in failure, at most one request is
\* in flight, and no candidate is requested twice.
C13_Sequential ==
    \A c \in Calls :
        LET s == call[c]
        IN  /\ RequestsFollow(s, s.tokens)
            /\ Len(s.reqs) = Len(s.resps) + (IF InFlight(s) THEN 1 ELSE 0)
            /\ \A j \in 1..(Len(s.reqs) - 1) :
                   j <= Len(s.resps) /\ AttemptFailed(s.resps[j])
            /\ InFlight(s) => s.i + 1 = Len(s.reqs)

\* C13 witness: the third request is in flight after two failures.
C13_Witness ==
    LET s == call[1]
    IN  /\ s.pc = "json" /\ Len(s.reqs) = 3 /\ Len(s.resps) = 2
        /\ s.reqs[3].authorization = s.tokens[3].token

\* C14: a call returns only from an attempt whose response has a success
\* status and a body that parses, and returns that body; a network exception,
\* a body that does not parse (under any status) and a failure status each make
\* a failed attempt: its error is caught and recorded as lastError, and the
\* next candidate is requested when one remains.
C14_OnlyParsedSuccessReturns ==
    \A c \in Calls :
        LET s == call[c]
            n == Len(s.tokens)
            last == Len(s.resps)
        IN  /\ (Done(s) /\ s.settled[1].kind = "return")
               => /\ s.resps[last].kind = "response"
                  /\ Ok(s.resps[last].status)
                  /\ s.resps[last].body.t # "bad"
                  /\ s.settled[1].data = s.resps[last].body
            /\ \A k \in 1..last :
                   (\/ s.resps[k].kind = "network"
                    \/ s.resps[k].body.t = "bad"
                    \/ ~Ok(s.resps[k].status))
                   => /\ Len(s.errs) >= k /\ s.errs[k].origin = k
                      /\ k = last => s.lastError = Some(s.errs[k])
                      /\ k < n => Len(s.reqs) >= k + 1
                      /\ (k = last /\ k < n) => (InFlight(s) /\ Len(s.reqs) = k + 1)
                      /\ (Done(s) /\ s.settled[1].kind = "return") => k < last

\* C14 witness: a 200 response whose body does not parse failed the first
\* attempt and the second candidate was requested.
C14_Witness ==
    LET s == call[1]
    IN  /\ Len(s.resps) = 1 /\ s.resps[1] = AttemptResponse(200, BodyBad)
        /\ s.pc = "fetch" /\ Len(s.reqs) = 2
        /\ s.lastError = Some(SyntaxError(1))

\* C15: when every request and every refresh eventually completes or fails, a
\* call that has started eventually settles, and it never issues more requests
\* than its resolved list has credentials.
C15_Terminates ==
    /\ [](\A c \in Calls : Len(call[c].reqs) <= Len(call[c].tokens))
    /\ \A c \in Calls : (call[c].pc # "idle") ~> Done(call[c])

\* C15 witness: a call has settled after one request per credential of a
\* two-credential list, all failed, while the other call is still suspended.
C15_Witness ==
    /\ Done(call[1]) /\ AllFailed(call[1]) /\ Len(call[1].tokens) = 2
    /\ Len(call[1].reqs) = 2
    /\ InFlight(call[2])

RefreshEntries(s) ==
    {j \in 1..Len(s.audit) : s.audit[j].prompt = "Auth Token Refresh"}

\* The kinds of audit entry the order is about.
IsRefreshEntry(e) == e.prompt = "Auth Token Refresh"
IsAttemptEntry(e) == e.prompt = "Attempting ${logContext} with token #${i + 1}"
IsFailEntry(e) == e.prompt = "Token #${i + 1} failed"
IsExhaustEntry(e) == e.prompt = "All available auth tokens failed."

\* The failure entry of candidate k stands before position j.
FailedBefore(s, k, j) ==
    \E f \in 1..(j - 1) : IsFailEntry(s.audit[f]) /\ s.audit[f].num = k

\* C16: in a call's audit trail the refresh entries precede every other
\* entry; each request was issued after the attempt-start entry
\* of its candidate and before that candidate's failure entry; the
\* attempt-start entry of candidate k+1 follows the failure entry of candidate
\* k; an exhaustion summary is the last entry and follows the failure entry of
\* the last candidate.  (reqAt[k] is the number of entries emitted when request
\* k went out.)
C16_AuditOrder ==
    \A c \in Calls :
        LET s == call[c]
            n == Len(s.tokens)
        IN  /\ \A k \in 1..Len(s.reqs) :
                   \E j \in 1..s.reqAt[k] :
                       IsAttemptEntry(s.audit[j]) /\ s.audit[j].num = k
            /\ \A j \in 1..Len(s.audit) :
                   LET e == s.audit[j]
                   IN  /\ IsRefreshEntry(e)
                          => \A r \in 1..(j - 1) : IsRefreshEntry(s.audit[r])
                       /\ IsAttemptEntry(e)
                          => /\ e.num <= Len(s.reqs) => j <= s.reqAt[e.num]
                             /\ e.num > 1 => FailedBefore(s, e.num - 1, j)
                       /\ IsFailEntry(e)
                          => /\ \E a \in 1..(j - 1) :
                                    IsAttemptEntry(s.audit[a]) /\ s.audit[a].num = e.num
                             /\ CanStringify(s.requestBody)
                                => e.num <= Len(s.reqs) /\ s.reqAt[e.num] < j
                       /\ IsExhaustEntry(e)
                          => j = Len(s.audit) /\ FailedBefore(s, n, j)

\* C16 witness: a call that refreshed to a list of two, failed with both and
\* emitted its exhaustion summary.
C16_Witness ==
    LET s == call[1]
    IN  /\ Done(s) /\ s.refreshCalls = 1 /\ Len(s.tokens) = 2 /\ AllFailed(s)
        /\ RefreshEntries(s) # {} /\ ExhaustEntries(s) # {}
        /\ Cardinality(FailEntries(s)) = 2

\* Both calls were given no pinned credential and both read an empty cache.
BothStartedEmpty ==
    \A c \in Calls : Unpinned(call[c]) /\ ReadNothing(call[c])

\* The refresh of call c settles in this step.
RefreshSettles(c) == call[c].refreshed = None /\ call'[c].refreshed # None

\* C17: two unpinned calls that both read an empty cache each perform one
\* refresh of their own; a call whose refresh returned a non-empty list rotates
\* over that list only; a call whose refresh threw or returned nothing raises
\* the no-credentials error without a request, whatever the cache holds by
\* then; the cache changes only when a refresh settles with a non-empty list,
\* and then holds that list, so it ends holding the list of the successful
\* refresh that settled last.
C17_OwnRefreshOnly ==
    /\ [](BothStartedEmpty
           => \A c \in Calls :
                  LET s == call[c]
                  IN  /\ s.refreshCalls = 1
                      /\ s.refreshed = None => (s.pc = "refresh" /\ s.reqs = <<>>)
                      /\ (s.refreshed # None /\ GotTokens(s.refreshed[1]))
                         => /\ s.tokens = s.refreshed[1].list
                            /\ AttemptEntries(s) # {}
                            /\ CanStringify(s.requestBody) => Len(s.reqs) >= 1
                            /\ RequestsFollow(s, s.refreshed[1].list)
                      /\ (s.refreshed # None /\ ~GotTokens(s.refreshed[1]))
                         => /\ s.settled = <<Raised(NoTokensError(s.logContext))>>
                            /\ s.reqs = <<>>)
    /\ [][BothStartedEmpty
           => /\ \A c \in Calls :
                    (RefreshSettles(c) /\ GotTokens(call'[c].refreshed[1]))
                    => cache' = JSONstringify(call'[c].refreshed[1].list)
              /\ cache' # cache
                 => \E c \in Calls :
                        RefreshSettles(c) /\ GotTokens(call'[c].refreshed[1])]_vars

\* C17 witness: both calls read an empty cache; call 1's refresh returned two
\* credentials and populated the cache; call 2's refresh threw afterwards and
\* call 2 raised the no-credentials error without a request.
C17_Witness ==
    /\ BothStartedEmpty
    /\ call[1].refreshed = Some(RefreshList(ListOne))
    /\ call[2].refreshed = Some(RefreshThrow(RefreshError))
    /\ cache = JSONstringify(ListOne) /\ getTokens(cache) = ListOne
    /\ call[2].settled = <<Raised(NoTokensError(call[2].logContext))>>
    /\ call[2].reqs = <<>> /\ call[1].pc = "fetch"

\* The session cache changes only in a step in which a call's refresh settles
\* with a non-empty list.
CacheWrittenByRefreshOnly ==
    cache' # cache
    => \E d \in Calls : RefreshSettles(d) /\ GotTokens(call'[d].refreshed[1])

\* A step in which a request of call c fails leaves the cache as it is and
\* starts no refresh.
FailureLeavesCache(c) ==
    (InFlight(call[c]) /\ Len(call'[c].errs) > Len(call[c].errs))
    => /\ cache' = cache
       /\ call'[c].refreshCalls = call[c].refreshCalls
       /\ call'[c].pc # "refresh"

\* Call c invokes the refresh in this step.
RefreshInvoked(c) == call'[c].refreshCalls # call[c].refreshCalls

\* C18 as stated: as C18 below, where "no pinned credential is given" means
\* that the argument was omitted.
C18_CacheFrameNoArgument ==
    /\ [][\A c \in Calls :
            /\ CacheWrittenByRefreshOnly
            /\ RefreshInvoked(c)
               => /\ call[c].pc = "idle" /\ call'[c].refreshCalls = 1
                  /\ call'[c].specificToken = None /\ ReadNothing(call'[c])
            /\ FailureLeavesCache(c)]_vars
    /\ [](\A c \in Calls :
            LET s == call[c]
            IN  (s.pc # "idle" /\ s.specificToken = None /\ ~ReadNothing(s))
                => /\ s.tokens = getTokens(s.read[1])
                   /\ s.refreshCalls = 0 /\ s.cacheWrites = 0
                   /\ RequestsFollow(s, getTokens(s.read[1])))

\* C18 amended: the session cache changes only in a step in which a call's
\* refresh settles with a non-empty list; a call invokes the refresh only when
\* its pinned credential is omitted or the empty string and its cache read
\* yielded no tokens, at most once and
\* before any request; a step in which a request fails, the exhaustion of the
\* list included, leaves the cache as it is and starts no refresh; so a call
\* that read a cache holding a list rotates over that list, however earlier
\* calls over the same cache ended.
C18_CacheFrame ==
    /\ [][\A c \in Calls :
            /\ CacheWrittenByRefreshOnly
            /\ RefreshInvoked(c)
               => /\ call[c].pc = "idle" /\ call'[c].refreshCalls = 1
                  /\ ~Pinned(call'[c]) /\ ReadNothing(call'[c])
            /\ FailureLeavesCache(c)]_vars
    /\ [](\A c \in Calls :
            LET s == call[c]
            IN  /\ s.refreshCalls > 0 => (~Pinned(s) /\ ReadNothing(s))
                /\ (s.pc # "idle" /\ ~Pinned(s) /\ ~ReadNothing(s))
                   => /\ s.tokens = getTokens(s.read[1])
                      /\ s.refreshCalls = 0 /\ s.cacheWrites = 0
                      /\ RequestsFollow(s, getTokens(s.read[1])))

\* C18 witness: call 1 exhausted the cached list of two, the cache still holds
\* that list and no refresh was made; call 2, started afterwards, read the same
\* cache and has gone through the same list again.
C18_Witness ==
    /\ \A c \in Calls :
           /\ Done(call[c]) /\ AllFailed(call[c]) /\ ~Pinned(call[c])
           /\ call[c].tokens = ListOne /\ call[c].refreshCalls = 0
           /\ Len(call[c].reqs) = 2
    /\ cache = JSONstringify(ListOne)

\* C19: a call that has reached its exhaustion path has made a request for
\* every credential of a non-empty list, every one of them failed, and the
\* lastError it read there is the error caught for the last one, which is the
\* error it raises.
C19_ExhaustionAfterFailures ==
    \A c \in Calls :
        LET s == call[c]
            n == Len(s.tokens)
        IN  s.exhausted
            => /\ n >= 1 /\ Len(s.errs) = n
               /\ Len(s.resps) = IF CanStringify(s.requestBody) THEN n ELSE 0
               /\ \A k \in 1..Len(s.resps) : AttemptFailed(s.resps[k])
               /\ \A k \in 1..n : s.errs[k].origin = k
               /\ s.lastErrorRead = Some(s.errs[n])
               /\ s.errs[n].origin = n
               /\ s.settled = <<Raised(s.errs[n])>>

\* C19 witness: the exhaustion path was reached after two failures of
\* different kinds, and read the second.
C19_Witness ==
    LET s == call[1]
    IN  /\ s.exhausted /\ Len(s.tokens) = 2
        /\ s.errs[1].src = "fetch" /\ s.errs[2].src = "json"
        /\ s.lastErrorRead = Some(SyntaxError(2))

====
